---- MODULE Spec2Model ----
(***************************************************************************)
(* A model of src/main.rs: render_frame (the torus sweep with its depth    *)
(* buffer and palette lookup) and the display loop of main.                *)
(*                                                                         *)
(* f32 values are fixed-point integers in units of 1/One: 1.0 is One,      *)
(* 0.007 is 7.  A product or quotient of two f32 values is rounded to the  *)
(* nearest unit.  usize values are plain naturals.                         *)
(***************************************************************************)
EXTENDS Integers, Sequences, FiniteSets, TLC

VARIABLES
    a,          \* main: rotation angle a
    b,          \* main: rotation angle b
    output,     \* main: the pixel buffer, index 0 .. SCREEN_WIDTH*SCREEN_HEIGHT-1
    zbuffer,    \* render_frame: the depth buffer of the call in progress
    theta,      \* render_frame: outer loop variable
    phi,        \* render_frame: inner loop variable
    pc,         \* position in the program
    calls,      \* number of render_frame calls begun so far
    displayed,  \* the buffer last handed to window.update_with_buffer
    visited,    \* history: the samples the call in progress has processed
    out0,       \* history: output as it was when the call in progress began
    results,    \* history: <<a, b>> and final output of the completed calls
    todo        \* the samples still to be plotted (arbitrary-order sweep only)

vars == <<a, b, output, zbuffer, theta, phi, pc, calls, displayed, visited,
          out0, results, todo>>

----------------------------------------------------------------------------
(* Bounds of the model. *)

\* The sweep visits every ThetaStride-th theta value of the source's grid
ThetaStride == 52
\* ... and every PhiStride-th phi value.
PhiStride == 238
\* The window is closed after at most MaxFrames iterations of main's loop.
MaxFrames == 2
\* Frames 0 .. NumFrames-1 of the caller's sequence are rendered one by one.
NumFrames == 100
\* Calls made by the repeated-call harness.
MaxCalls == 3
\* Grid positions filled by the arbitrary-order harness.
MaxSamples == 3

----------------------------------------------------------------------------
(* f32 arithmetic *)

One == 1000

Mul(x, y) == (x * y + One \div 2) \div One

Div(x, y) == (x * One + y \div 2) \div y

\* std::f32::consts::PI
Pi == 3142

\* k-th tail factor of the Taylor series, rounded: 1 - w/k
TaylorStep(w, k) == One - (w + k \div 2) \div k

SinSeries(y) ==
    LET y2 == Mul(y, y)
        t4 == TaylorStep(y2, 72)
        t3 == TaylorStep(Mul(y2, t4), 42)
        t2 == TaylorStep(Mul(y2, t3), 20)
        t1 == TaylorStep(Mul(y2, t2), 6)
        s  == Mul(y, t1)
    IN  IF s > One THEN One ELSE IF s < -One THEN -One ELSE s

CosSeries(y) ==
    LET y2 == Mul(y, y)
        t5 == TaylorStep(y2, 90)
        t4 == TaylorStep(Mul(y2, t5), 56)
        t3 == TaylorStep(Mul(y2, t4), 30)
        t2 == TaylorStep(Mul(y2, t3), 12)
    IN  TaylorStep(Mul(y2, t2), 2)

\* f32::sin for an angle x >= 0
Sin(x) ==
    LET r == x % (2 * Pi)
    IN  IF r <= Pi \div 2 THEN SinSeries(r)
        ELSE IF r <= Pi + Pi \div 2 THEN SinSeries(Pi - r)
        ELSE SinSeries(r - 2 * Pi)

\* f32::cos for an angle x >= 0
Cos(x) ==
    LET r == x % (2 * Pi)
    IN  IF r <= Pi \div 2 THEN CosSeries(r)
        ELSE IF r <= Pi + Pi \div 2 THEN -CosSeries(r - Pi)
        ELSE CosSeries(r - 2 * Pi)

\* `v as usize` for an f32 v: truncation toward zero, negative values give 0
AsUsize(v) == IF v < 0 THEN 0 ELSE v \div One

\* `n as f32` for a usize n
AsF32(n) == n * One

----------------------------------------------------------------------------
(* Constants of the program *)

xy(width, x, y) == y * width + x

GRADIENT ==
    << 1640218,  \* 0x19071a
       590127,   \* 0x09012f
       263241,   \* 0x040449
       1892,     \* 0x000764
       3767761,  \* 0x397dd1
       8828389,  \* 0x86b5e5
       13888760, \* 0xd3ecf8
       15854015, \* 0xf1e9bf
       16304479, \* 0xf8c95f
       16755200, \* 0xffaa00
       13402112, \* 0xcc8000
       6960131 >> \* 0x6a3403

SCREEN_WIDTH == 100
SCREEN_HEIGHT == 100

\* 0.007
THETA_SPACING == 7
\* 0.002
PHI_SPACING == 2

\* 1.0
R1 == 1000
\* 2.0
R2 == 2000
\* 5.0
K2 == 5000

\* Mutant of K1: the torus edge is placed at half the screen width.
K1_HalfWidth ==
    Div(Mul(Mul(AsF32(SCREEN_WIDTH), K2), 4 * One), Mul(8 * One, R1 + R2))

K1 == Div(Mul(Mul(AsF32(SCREEN_WIDTH), K2), 3 * One), Mul(8 * One, R1 + R2))

\* 2.0 * PI, the bound of both loops
TwoPi == Mul(2 * One, Pi)

\* main: a += 0.007
A_STEP == 7
\* main: b += 0.003
B_STEP == 3

Pixels == 0 .. (SCREEN_WIDTH * SCREEN_HEIGHT - 1)

(* A vector of SCREEN_WIDTH * SCREEN_HEIGHT elements is held as the value   *)
(* it was filled with and the cells that differ from it: element i is      *)
(* cells[i] when i is in DOMAIN cells, and fill otherwise.  Two vectors    *)
(* are equal exactly when they hold the same element at every index.       *)

\* vec![v; SCREEN_WIDTH * SCREEN_HEIGHT]
NewVec(v) == [fill |-> v, cells |-> <<>>]

\* vec[i], for i in Pixels (the caller checks the index)
Get(vec, i) == IF i \in DOMAIN vec.cells THEN vec.cells[i] ELSE vec.fill

\* vec[i] = v, for i in Pixels
Set(vec, i, v) ==
    LET keep == IF v = vec.fill THEN DOMAIN vec.cells \ {i}
                ELSE DOMAIN vec.cells \cup {i}
    IN  [vec EXCEPT !.cells = [j \in keep |-> IF j = i THEN v ELSE vec.cells[j]]]

----------------------------------------------------------------------------
(* render_frame: one sample of the sweep *)

\* The body of the inner loop up to the luminance, for angles aa, bb and
\* the grid pair (th, ph).  z is never 0 for a value the sweep produces
\* (1.0 / 0.0 is infinite in f32; the quotient below is then undefined and
\* TLC reports it).
SampleAt(aa, bb, th, ph) ==
    LET cos_a == Cos(aa)
        sin_a == Sin(aa)
        cos_b == Cos(bb)
        sin_b == Sin(bb)
        costheta == Cos(th)
        sintheta == Sin(th)
        cosphi == Cos(ph)
        sinphi == Sin(ph)
        circlex == R2 + Mul(R1, costheta)
        circley == Mul(R1, sintheta)
        x == Mul(circlex, Mul(cos_b, cosphi) + Mul(Mul(sin_a, sin_b), sinphi))
               - Mul(Mul(circley, cos_a), sin_b)
        y == Mul(circlex, Mul(sin_b, cosphi) - Mul(Mul(sin_a, cos_b), sinphi))
               + Mul(Mul(circley, cos_a), cos_b)
        z == K2 + Mul(Mul(cos_a, circlex), sinphi) + Mul(circley, sin_a)
        ooz == Div(One, z)
        xp == AsUsize(Div(AsF32(SCREEN_WIDTH), 2 * One) + Mul(Mul(K1, ooz), x))
        yp == AsUsize(Div(AsF32(SCREEN_HEIGHT), 2 * One) - Mul(Mul(K1, ooz), y))
        l == Mul(Mul(cosphi, costheta), sin_b) - Mul(Mul(cos_a, costheta), sinphi)
               - Mul(sin_a, sintheta)
               + Mul(cos_b, Mul(cos_a, sintheta) - Mul(Mul(costheta, sin_a), sinphi))
    IN  [theta |-> th, phi |-> ph, xp |-> xp, yp |-> yp, z |-> z, ooz |-> ooz, l |-> l]

\* Mutant of Visible: a sample with l exactly 0 is plotted too.
VisibleOrEdgeOn(l) == l >= 0

\* if l > 0.0
Visible(l) == l > 0

\* Mutant of Nearer: no depth test, the last sample at a pixel wins.
NoDepthTest(ooz, stored) == TRUE

\* if ooz > zbuffer[zbuffer_xy(xp, yp)]
Nearer(ooz, stored) == ooz > stored

\* let zbuffer_xy = |x, y| xy(SCREEN_WIDTH, x, y)
zbuffer_xy(x, y) == xy(SCREEN_WIDTH, x, y)

\* Mutant of output_xy: the coordinates are passed in the other order.
output_yx(x, y) == xy(SCREEN_WIDTH, y, x)

\* main: let output_xy = |x, y| xy(SCREEN_WIDTH, x, y)
output_xy(x, y) == xy(SCREEN_WIDTH, x, y)

\* Mutant of LuminanceIndex: the product is rounded to the nearest integer.
RoundedIndex(l) == AsUsize(Mul(l, 8 * One) + One \div 2)

\* (l * 8.0) as usize
LuminanceIndex(l) == AsUsize(Mul(l, 8 * One))

\* GRADIENT[i], i counted from 0 as in the source
Colour(i) == GRADIENT[i + 1]

\* The depth test and the plot of one sample s on buffers zb and out.
\* panic: an index is outside its vector or outside GRADIENT.
Plot(zb, out, s) ==
    LET zi == zbuffer_xy(s.xp, s.yp)
        oi == output_xy(s.xp, s.yp)
        li == LuminanceIndex(s.l)
    IN  IF ~Visible(s.l)
          THEN [zbuffer |-> zb, output |-> out, panic |-> FALSE]
        ELSE IF zi \notin Pixels
          THEN [zbuffer |-> zb, output |-> out, panic |-> TRUE]
        ELSE IF ~Nearer(s.ooz, Get(zb, zi))
          THEN [zbuffer |-> zb, output |-> out, panic |-> FALSE]
        ELSE IF li >= Len(GRADIENT) \/ oi \notin Pixels
          THEN [zbuffer |-> Set(zb, zi, s.ooz), output |-> out,
                panic |-> TRUE]
        ELSE [zbuffer |-> Set(zb, zi, s.ooz),
              output |-> Set(out, oi, Colour(li)),
              panic |-> FALSE]

\* theta += THETA_SPACING, for the grid the model sweeps
ThetaStep == THETA_SPACING * ThetaStride

\* phi += PHI_SPACING, for the grid the model sweeps
PhiStep == PHI_SPACING * PhiStride

----------------------------------------------------------------------------
(* render_frame *)

\* Mutant of Call: the depth buffer of the previous call is used again.
CallKeepsDepth ==
    /\ pc = "call"
    /\ theta' = 0
    /\ calls' = calls + 1
    /\ visited' = {}
    /\ out0' = output
    /\ pc' = "outer"
    /\ UNCHANGED <<a, b, output, zbuffer, phi, displayed, results, todo>>

\* Mutant of Call: render_frame clears the output buffer on entry.
CallClearsOutput ==
    /\ pc = "call"
    /\ zbuffer' = NewVec(0)
    /\ output' = NewVec(0)
    /\ theta' = 0
    /\ calls' = calls + 1
    /\ visited' = {}
    /\ out0' = output
    /\ pc' = "outer"
    /\ UNCHANGED <<a, b, phi, displayed, results, todo>>

\* Entry: the depth buffer is allocated, theta starts at 0.
Call ==
    /\ pc = "call"
    /\ zbuffer' = NewVec(0)
    /\ theta' = 0
    /\ calls' = calls + 1
    /\ visited' = {}
    /\ out0' = output
    /\ pc' = "outer"
    /\ UNCHANGED <<a, b, output, phi, displayed, results, todo>>

\* Mutant of OuterTest: phi is not set back to 0 for the next theta.
OuterTestKeepsPhi ==
    /\ pc = "outer"
    /\ IF theta < TwoPi
         THEN phi' = phi /\ pc' = "inner"
         ELSE phi' = phi /\ pc' = "ret"
    /\ UNCHANGED <<a, b, output, zbuffer, theta, calls, displayed, visited,
                   out0, results, todo>>

\* while theta < 2.0 * PI { ...; let mut phi = 0.0;
OuterTest ==
    /\ pc = "outer"
    /\ IF theta < TwoPi
         THEN phi' = 0 /\ pc' = "inner"
         ELSE phi' = phi /\ pc' = "ret"
    /\ UNCHANGED <<a, b, output, zbuffer, theta, calls, displayed, visited,
                   out0, results, todo>>

\* while phi < 2.0 * PI { <one sample>; phi += PHI_SPACING; }
Sample ==
    /\ pc = "inner"
    /\ phi < TwoPi
    /\ \E s \in {SampleAt(a, b, theta, phi)} :
       \E r \in {Plot(zbuffer, output, s)} :
           /\ zbuffer' = r.zbuffer
           /\ output' = r.output
           /\ visited' = visited \cup {s}
           /\ IF r.panic
                THEN phi' = phi /\ pc' = "panic"
                ELSE phi' = phi + PhiStep /\ pc' = pc
    /\ UNCHANGED <<a, b, theta, calls, displayed, out0, results, todo>>

\* The inner loop ends: theta += THETA_SPACING;
InnerExit ==
    /\ pc = "inner"
    /\ ~(phi < TwoPi)
    /\ theta' = theta + ThetaStep
    /\ pc' = "outer"
    /\ UNCHANGED <<a, b, output, zbuffer, phi, calls, displayed, visited,
                   out0, results, todo>>

----------------------------------------------------------------------------
(* main *)

\* while window.is_open(): the window is open
Open ==
    /\ pc = "loop"
    /\ calls < MaxFrames
    /\ pc' = "call"
    /\ UNCHANGED <<a, b, output, zbuffer, theta, phi, calls, displayed,
                   visited, out0, results, todo>>

\* while window.is_open(): the window was closed
Close ==
    /\ pc = "loop"
    /\ pc' = "exit"
    /\ UNCHANGED <<a, b, output, zbuffer, theta, phi, calls, displayed,
                   visited, out0, results, todo>>

\* a += 0.007; b += 0.003;
Advance ==
    /\ pc = "ret"
    /\ a' = a + A_STEP
    /\ b' = b + B_STEP
    /\ pc' = "display"
    /\ UNCHANGED <<output, zbuffer, theta, phi, calls, displayed, visited,
                   out0, results, todo>>

\* window.update_with_buffer(&output, ...)
Display ==
    /\ pc = "display"
    /\ displayed' = output
    /\ pc' = "replace"
    /\ UNCHANGED <<a, b, output, zbuffer, theta, phi, calls, visited, out0,
                   results, todo>>

\* Mutant of Replace: the buffer is kept for the next frame.
ReplaceKeepsBuffer ==
    /\ pc = "replace"
    /\ pc' = "loop"
    /\ UNCHANGED <<a, b, output, zbuffer, theta, phi, calls, displayed,
                   visited, out0, results, todo>>

\* output = vec![0; SCREEN_WIDTH * SCREEN_HEIGHT];
Replace ==
    /\ pc = "replace"
    /\ output' = NewVec(0)
    /\ pc' = "loop"
    /\ UNCHANGED <<a, b, zbuffer, theta, phi, calls, displayed, visited,
                   out0, results, todo>>

Init ==
    /\ a = 0
    /\ b = 0
    /\ output = NewVec(0)
    /\ zbuffer = NewVec(0)
    /\ theta = 0
    /\ phi = 0
    /\ pc = "loop"
    /\ calls = 0
    /\ displayed = <<>>
    /\ visited = {}
    /\ out0 = NewVec(0)
    /\ results = {}
    /\ todo = {}

Next ==
    \/ Open
    \/ Close
    \/ Call
    \/ OuterTest
    \/ Sample
    \/ InnerExit
    \/ Advance
    \/ Display
    \/ Replace

Spec == Init /\ [][Next]_vars

\* The program is one thread that always takes its next step.
FairSpec == Spec /\ WF_vars(Next)

----------------------------------------------------------------------------
(* render_frame alone, on each frame of the caller's sequence *)

\* The state in which main calls render_frame for frame n
FrameCall(n, buffer) ==
    /\ a = A_STEP * n
    /\ b = B_STEP * n
    /\ output = buffer
    /\ zbuffer = NewVec(0)
    /\ theta = 0
    /\ phi = 0
    /\ pc = "call"
    /\ calls = 0
    /\ displayed = <<>>
    /\ visited = {}
    /\ out0 = buffer
    /\ results = {}
    /\ todo = {}

InitFrames == \E n \in 0 .. (NumFrames - 1) : FrameCall(n, NewVec(0))

NextRender ==
    \/ Call
    \/ OuterTest
    \/ Sample
    \/ InnerExit

SpecFrames == InitFrames /\ [][NextRender]_vars

----------------------------------------------------------------------------
(* render_frame called again and again on buffers of the same contents *)

\* The frames whose angles the calls are made with
CallFrames == {0, 50}

\* What the buffer holds at every pixel when a call begins
Backgrounds == {0, 16777215}

InitCalls ==
    \E n \in CallFrames : \E v \in Backgrounds : FrameCall(n, NewVec(v))

\* render_frame has returned; it is called once more, with the angles of
\* one of CallFrames, on a buffer that holds what the last one held.
Recall ==
    /\ pc = "ret"
    /\ calls < MaxCalls
    /\ results' = results \cup
                    {[a |-> a, b |-> b, out0 |-> out0, output |-> output]}
    /\ \E n \in CallFrames : a' = A_STEP * n /\ b' = B_STEP * n
    /\ output' = out0
    /\ pc' = "call"
    /\ UNCHANGED <<zbuffer, theta, phi, calls, displayed, visited, out0, todo>>

NextCalls ==
    \/ Call
    \/ OuterTest
    \/ Sample
    \/ InnerExit
    \/ Recall

SpecCalls == InitCalls /\ [][NextCalls]_vars

----------------------------------------------------------------------------
(* The depth test and plot alone, on samples given in any order *)

\* l ranges from -sqrt(2) to +sqrt(2)
SQRT_2 == 1414

\* A sample at grid position k that projects to pixel (x, SCREEN_HEIGHT/2)
\* at depth zz with luminance lum
SampleOf(k, x, zz, lum) ==
    [theta |-> k * THETA_SPACING, phi |-> 0, xp |-> x,
     yp |-> SCREEN_HEIGHT \div 2, z |-> zz, ooz |-> Div(One, zz), l |-> lum]

\* The body of `if l > 0.0 { ... }` for one of the samples of todo
PlotAny ==
    /\ pc = "plot"
    /\ \E s \in todo :
       \E r \in {Plot(zbuffer, output, s)} :
           /\ zbuffer' = r.zbuffer
           /\ output' = r.output
           /\ visited' = visited \cup {s}
           /\ todo' = todo \ {s}
           /\ pc' = IF r.panic THEN "panic" ELSE pc
    /\ UNCHANGED <<a, b, theta, phi, calls, displayed, out0, results>>

\* The state of a call whose sweep is about to plot the samples of set
PlotCall(set) ==
    /\ a = 0
    /\ b = 0
    /\ output = NewVec(0)
    /\ zbuffer = NewVec(0)
    /\ theta = 0
    /\ phi = 0
    /\ pc = "plot"
    /\ calls = 1
    /\ displayed = <<>>
    /\ visited = {}
    /\ out0 = NewVec(0)
    /\ results = {}
    /\ todo = set

\* One sample at the centre of the screen, of any luminance of the range
InitPalette ==
    \E lum \in (-2) .. SQRT_2 :
        PlotCall({SampleOf(0, SCREEN_WIDTH \div 2, K2, lum)})

SpecPalette == InitPalette /\ [][PlotAny]_vars

\* What a grid position may hold: a pixel column, a depth and a luminance
OrderChoices ==
    {<<x, zz, lum>> : x \in {SCREEN_WIDTH \div 2, SCREEN_WIDTH \div 2 + 1},
                      zz \in {K2 - R1, K2},
                      lum \in {300, 700}}

\* Up to MaxSamples samples of one frame, at grid positions 1 .. MaxSamples
InitOrder ==
    \E f \in [1 .. MaxSamples -> OrderChoices \cup {<<>>}] :
        PlotCall({SampleOf(k, f[k][1], f[k][2], f[k][3]) :
                     k \in {j \in 1 .. MaxSamples : f[j] # <<>>}})

SpecOrder == InitOrder /\ [][PlotAny]_vars

\* The buffers render_frame's own sweep leaves: the samples of set plotted
\* on zb and out by increasing theta, then increasing phi
RECURSIVE PlotInSweepOrder(_, _, _)
PlotInSweepOrder(zb, out, set) ==
    IF set = {}
      THEN [zbuffer |-> zb, output |-> out]
      ELSE LET s == CHOOSE u \in set :
                       \A t \in set \ {u} :
                           \/ u.theta < t.theta
                           \/ (u.theta = t.theta /\ u.phi < t.phi)
               r == Plot(zb, out, s)
           IN  PlotInSweepOrder(r.zbuffer, r.output, set \ {s})

----------------------------------------------------------------------------
(* Vocabulary of the claims *)

\* The row-major index of the pixel sample s projects to
PixelOf(s) == s.yp * SCREEN_WIDTH + s.xp

\* s was processed before t in the sweep of render_frame
Before(s, t) == s.theta < t.theta \/ (s.theta = t.theta /\ s.phi < t.phi)

\* The processed samples that face the viewer
Lit == {s \in visited : s.l > 0}

\* floor(l * 8) clamped into 0 .. 11
FloorIndex(l) ==
    LET f == (l * 8) \div One
    IN  IF f < 0 THEN 0 ELSE IF f > 11 THEN 11 ELSE f

\* The palette colour of luminance l
PaletteOf(l) == GRADIENT[FloorIndex(l) + 1]

\* The pixels some processed sample with l > 0 projected to
LitPixels == {PixelOf(s) : s \in Lit}

\* The largest ooz among the processed samples with l > 0 at pixel p
MaxOoz(p) ==
    LET here == {s \in Lit : PixelOf(s) = p}
    IN  (CHOOSE s \in here : \A t \in here : t.ooz <= s.ooz).ooz

\* The sample the next Sample step processes
Current == SampleAt(a, b, theta, phi)

Sampling == pc = "inner" /\ phi < TwoPi

InRender == pc \in {"outer", "inner", "ret"}

----------------------------------------------------------------------------
\* C1: after any prefix of the sweep, zbuffer[p] is the largest ooz among the
\* processed samples with l > 0 that projected to p, and 0 when there is
\* none; a sample whose ooz is smaller than the value stored at its pixel
\* changes neither zbuffer nor output, and a step of the sweep changes at
\* most the entry of its sample's pixel, which it raises.
C1_DepthIsMax ==
    InRender =>
        LET hit == LitPixels
        IN  \A p \in Pixels :
                Get(zbuffer, p) = IF p \in hit THEN MaxOoz(p) ELSE 0

C1_FartherIsDropped ==
    Sampling =>
        /\ (Current.l > 0 /\ Current.ooz < Get(zbuffer, PixelOf(Current))) =>
               (zbuffer' = zbuffer /\ output' = output)
        /\ \A p \in Pixels : Get(zbuffer', p) >= Get(zbuffer, p)
        /\ \A p \in Pixels \ {PixelOf(Current)} :
              Get(zbuffer', p) = Get(zbuffer, p)

C1_DepthMonotone == [](C1_DepthIsMax) /\ [][C1_FartherIsDropped]_vars

\* A later sample of the sweep was farther than an earlier one at its pixel.
C1_Witness ==
    /\ InRender
    /\ \E s \in Lit : \E t \in Lit :
          /\ PixelOf(s) = PixelOf(t)
          /\ Before(t, s)
          /\ s.ooz < t.ooz
          /\ Get(zbuffer, PixelOf(s)) >= t.ooz

----------------------------------------------------------------------------
\* C2: a sample with luminance l <= 0 writes to neither buffer: the step that
\* processes it leaves zbuffer and output as they were, also when l is
\* exactly 0 and when the sample is nearer than what its pixel holds.
C2_Culled == Sampling /\ Current.l <= 0 => zbuffer' = zbuffer /\ output' = output

C2_BackfaceCulling == [][C2_Culled]_vars

\* The sweep has processed a sample with l = 0 and a sample with l < 0 that
\* is nearer than the depth its pixel holds.
C2_Witness ==
    /\ InRender
    /\ \E s \in visited : s.l = 0 /\ s.ooz > Get(zbuffer, PixelOf(s))
    /\ \E s \in visited : s.l < 0 /\ s.ooz > Get(zbuffer, PixelOf(s))

----------------------------------------------------------------------------
\* C3: when render_frame returns, every pixel some sample with l > 0
\* projected to holds in output the palette colour of a sample with the
\* largest ooz among the samples with l > 0 at that pixel, and zbuffer holds
\* that sample's ooz at the same index; a step that writes one buffer at an
\* index writes the other at the same index, with the depth and the colour
\* of the same sample.
C3_Winner ==
    pc = "ret" =>
        \A p \in LitPixels :
            \E s \in Lit :
                /\ PixelOf(s) = p
                /\ \A t \in Lit : PixelOf(t) = p => t.ooz <= s.ooz
                /\ Get(zbuffer, p) = s.ooz
                /\ Get(output, p) = PaletteOf(s.l)

C3_WrittenTogether ==
    Sampling /\ (zbuffer' # zbuffer \/ output' # output) =>
        /\ Get(zbuffer', PixelOf(Current)) = Current.ooz
        /\ Get(output', PixelOf(Current)) = PaletteOf(Current.l)
        /\ \A p \in Pixels \ {PixelOf(Current)} :
              /\ Get(zbuffer', p) = Get(zbuffer, p)
              /\ Get(output', p) = Get(output, p)

C3_NearestWins == [](C3_Winner) /\ [][C3_WrittenTogether]_vars

\* render_frame has returned and at some pixel a later, nearer sample
\* replaced an earlier one of another colour.
C3_Witness ==
    /\ pc = "ret"
    /\ \E s \in Lit : \E t \in Lit :
          /\ PixelOf(s) = PixelOf(t)
          /\ Before(s, t)
          /\ s.ooz < t.ooz
          /\ PaletteOf(s.l) # PaletteOf(t.l)
          /\ Get(output, PixelOf(t)) = PaletteOf(t.l)

----------------------------------------------------------------------------
\* C4: every pixel render_frame writes receives one of the 12 GRADIENT
\* constants, and for a sample with l > 0 that passes the depth test the
\* palette index used is floor(l * 8) clamped into 0 .. 11: l * 8 just below
\* 3 gives index 2, l * 8 = 3 gives index 3, and for no l in (0, sqrt(2)]
\* the index reaches 12.
C4_PaletteBound ==
    /\ pc # "panic"
    /\ \A p \in Pixels :
          Get(output, p) # Get(out0, p) =>
              \E i \in 1 .. 12 : Get(output, p) = GRADIENT[i]
    /\ \A s \in Lit :
          /\ LuminanceIndex(s.l) = FloorIndex(s.l)
          /\ (s.l * 8) \div One < 12
          /\ Get(output, PixelOf(s)) = GRADIENT[FloorIndex(s.l) + 1]
          /\ (3 * One - 8 <= s.l * 8 /\ s.l * 8 < 3 * One) =>
                 Get(output, PixelOf(s)) = GRADIENT[3]
          /\ s.l * 8 = 3 * One => Get(output, PixelOf(s)) = GRADIENT[4]

\* A sample with l * 8 = 3 exactly has been plotted with the colour of index 3.
C4_Witness ==
    \E s \in Lit :
        /\ s.l * 8 = 3 * One
        /\ Get(output, PixelOf(s)) = GRADIENT[4]
        /\ Get(zbuffer, PixelOf(s)) = s.ooz

----------------------------------------------------------------------------
\* C5: for every frame n = 0 .. 99 of the caller's sequence (a = 0.007 * n,
\* b = 0.003 * n) and every sample of the sweep, z is not 0 and the
\* truncated coordinates satisfy 0 <= xp < SCREEN_WIDTH and
\* 0 <= yp < SCREEN_HEIGHT, so the index into zbuffer and output is below
\* SCREEN_WIDTH * SCREEN_HEIGHT and no access faults; and when the call
\* returns it has written at least one pixel.
C5_Total ==
    /\ pc # "panic"
    /\ Sampling =>
          LET s == Current
          IN  /\ s.z # 0
              /\ 0 <= s.xp /\ s.xp < SCREEN_WIDTH
              /\ 0 <= s.yp /\ s.yp < SCREEN_HEIGHT
              /\ zbuffer_xy(s.xp, s.yp) < SCREEN_WIDTH * SCREEN_HEIGHT
              /\ output_xy(s.xp, s.yp) < SCREEN_WIDTH * SCREEN_HEIGHT
    /\ pc = "ret" => \E p \in LitPixels : Get(output, p) # Get(out0, p)

\* The last frame of the sequence has been rendered and has written pixels.
C5_Witness ==
    /\ pc = "ret"
    /\ a = A_STEP * 99
    /\ b = B_STEP * 99
    /\ \E p \in LitPixels : Get(output, p) # 0

----------------------------------------------------------------------------
\* C6: for fixed angles a and b and a buffer of the same contents, every
\* call of render_frame leaves the same output buffer, whatever calls were
\* made before it.
C6_Deterministic ==
    pc = "ret" =>
        \A r \in results :
            (r.a = a /\ r.b = b /\ r.out0 = out0) => r.output = output

\* A call has returned the buffer an earlier call with the same angles
\* returned, a call with other angles having been made as well.
C6_Witness ==
    /\ pc = "ret"
    /\ \E r \in results : r.a = a /\ r.b = b /\ r.output = output
    /\ \E r \in results : r.a # a /\ r.output # output
    /\ output # out0

----------------------------------------------------------------------------
\* C7: render_frame never clears output: when the call returns, every pixel
\* no sample with l > 0 projected to holds the value it held when the call
\* began; and no step of render_frame changes the angles a and b.
C7_UnwrittenKept ==
    pc = "ret" =>
        LET hit == LitPixels
        IN  \A p \in Pixels : p \notin hit => Get(output, p) = Get(out0, p)

C7_AnglesKept ==
    pc \in {"call", "outer", "inner"} =>
        /\ a' = a
        /\ b' = b
        /\ pc = "call" => output' = output

C7_FrameEffect == [](C7_UnwrittenKept) /\ [][C7_AnglesKept]_vars

\* A call on a buffer that was not 0 has returned, with pixels written and
\* pixels left as they were.
C7_Witness ==
    /\ pc = "ret"
    /\ a # 0
    /\ \E p \in LitPixels : Get(output, p) # Get(out0, p)
    /\ \E p \in Pixels \ LitPixels : Get(output, p) = Get(out0, p) /\ Get(out0, p) # 0

----------------------------------------------------------------------------
\* C8 (as claimed): for a fixed set of samples of one frame the final
\* zbuffer and the final output are the same whatever order the samples are
\* processed in, also when two samples with l > 0 project to one pixel with
\* equal ooz and different luminance.
C8_OrderIndependent ==
    (pc = "plot" /\ todo = {}) =>
        LET r == PlotInSweepOrder(NewVec(0), NewVec(0), visited)
        IN  zbuffer = r.zbuffer /\ output = r.output

\* Two samples with l > 0 share a pixel and the largest ooz at it, and
\* have different palette colours.
ColourTie ==
    \E s \in Lit : \E t \in Lit :
        /\ PixelOf(s) = PixelOf(t)
        /\ s.ooz = t.ooz
        /\ s.ooz = MaxOoz(PixelOf(s))
        /\ PaletteOf(s.l) # PaletteOf(t.l)

\* C8 (amended): the final zbuffer is the same whatever order the samples
\* are processed in, and so is the final output unless two samples with
\* l > 0 share a pixel and the largest ooz at it and have different palette
\* colours; of such samples the one processed first keeps the pixel.
C8_OrderIndependentNoTie ==
    (pc = "plot" /\ todo = {}) =>
        LET r == PlotInSweepOrder(NewVec(0), NewVec(0), visited)
        IN  /\ zbuffer = r.zbuffer
            /\ ~ColourTie => output = r.output

\* The samples are processed out of sweep order: the one still to come is
\* before, and nearer than, one already plotted at the same pixel.
C8_Witness ==
    /\ pc = "plot"
    /\ \E s \in todo : \E t \in Lit :
          /\ Before(s, t)
          /\ PixelOf(s) = PixelOf(t)
          /\ s.ooz > t.ooz
          /\ s.l > 0
          /\ PaletteOf(s.l) # PaletteOf(t.l)

----------------------------------------------------------------------------
\* C9: whenever main calls render_frame the output buffer is all 0 and the
\* n-th call (n from 0) is made with a = 0.007 * n and b = 0.003 * n; a
\* buffer handed to the display holds, at every pixel, a colour written by
\* the most recent render_frame call or 0.
C9_DisplayLoop ==
    /\ pc = "call" =>
          /\ \A p \in Pixels : Get(output, p) = 0
          /\ a = A_STEP * calls
          /\ b = B_STEP * calls
    /\ pc = "replace" =>
          LET hit == LitPixels
          IN  \A p \in Pixels :
                  IF p \in hit
                    THEN \E s \in Lit : /\ PixelOf(s) = p
                                        /\ Get(displayed, p) = PaletteOf(s.l)
                    ELSE Get(displayed, p) = 0

\* The second frame has been displayed, with pixels written.
C9_Witness ==
    /\ pc = "replace"
    /\ calls = 2
    /\ a = 2 * A_STEP
    /\ \E p \in LitPixels : Get(displayed, p) # 0

----------------------------------------------------------------------------
\* C10: every call of render_frame returns, and when it returns it has
\* processed each pair of the grid exactly once: theta = 0, ThetaStep,
\* 2 * ThetaStep, ... below 2 * pi and, for each theta, phi = 0, PhiStep,
\* 2 * PhiStep, ... below 2 * pi, the same phi values for every theta.
ThetaValues == {k * ThetaStep : k \in 0 .. (TwoPi \div ThetaStep)} \cap 0 .. (TwoPi - 1)

PhiValues == {k * PhiStep : k \in 0 .. (TwoPi \div PhiStep)} \cap 0 .. (TwoPi - 1)

Swept == {<<s.theta, s.phi>> : s \in visited}

C10_FullGrid == pc = "ret" => Swept = ThetaValues \X PhiValues

C10_OncePerPair ==
    /\ Sampling /\ visited' # visited =>
          /\ <<theta, phi>> \notin Swept
          /\ Swept' = Swept \cup {<<theta, phi>>}
    /\ pc = "inner" /\ pc' = "inner" => visited' # visited

C10_Terminates ==
    /\ (pc = "call") ~> (pc = "ret")
    /\ [](C10_FullGrid)
    /\ [][C10_OncePerPair]_vars

\* render_frame returns after the last pair of the grid.
C10_Witness ==
    /\ pc = "ret"
    /\ Cardinality(visited) = Cardinality(ThetaValues) * Cardinality(PhiValues)
    /\ Cardinality(ThetaValues) > 1
    /\ Cardinality(PhiValues) > 1

====
